---- MODULE Spec2Model ----
(***************************************************************************)
(* Model of the aoc-rust-utils grid visualisation engine                   *)
(* (aoc-visualisation/src/grid.rs and its helpers).                        *)
(*                                                                         *)
(* Three specifications share the variables below:                         *)
(*   SizeSpec        a GridVisualiser over a terminal of some area,        *)
(*                   answering calculate_viewable_grid_size calls;         *)
(*   ConstraintSpec  direct calls of the associated function               *)
(*                   create_constraints (it takes no self);                *)
(*   Spec            a GridVisualiser that is configured (add_style,       *)
(*                   set_numbers_style) and draws views (draw_ref).        *)
(***************************************************************************)
EXTENDS Integers, Sequences, FiniteSets, TLC

(***************************************************************************)
(* Bounds of the model.                                                    *)
(***************************************************************************)
MaxHeight == 7
MaxWidth == 15
MaxCap == 2
MaxContentHeight == 2
MaxContentWidth == 6
MaxCellCount == 3
MaxCellSize == 3
MaxHeaderSize == 3
MaxBoard == 2

(***************************************************************************)
(* Machine integers.  u16 keeps its width.  TLC's integers are 32 bits     *)
(* wide, so the model's usize is 20 bits wide: wider than u16, as on every *)
(* target, so that `area.height as usize` is lossless and a wrapped        *)
(* difference is far larger than any area or cap of the model.             *)
(***************************************************************************)
U16Modulus == 2 ^ 16
UsizeModulus == 2 ^ 20

\* The outcome of an arithmetic operation that panicked.
Panic == 0 - 1

Max(a, b) == IF a >= b THEN a ELSE b
Min(a, b) == IF a <= b THEN a ELSE b

\* usize `a - b`: with overflow checks (debug profile) an underflow panics,
\* without them (release profile) it wraps.  A panic propagates.
UsizeSub(a, b, checks) ==
    IF a = Panic \/ b = Panic THEN Panic
    ELSE IF a >= b THEN a - b
    ELSE IF checks THEN Panic
    ELSE a - b + UsizeModulus

\* usize `a / b` (b is never 0 here: it is a size plus one).
UsizeDiv(a, b) ==
    IF a = Panic \/ b = Panic THEN Panic ELSE a \div b

\* `x as u16`: truncation.
AsU16(x) == x % U16Modulus

\* u16 `a + b`: panics or wraps on overflow, by build profile.
U16Add(a, b, checks) ==
    IF a + b < U16Modulus THEN a + b
    ELSE IF checks THEN Panic
    ELSE (a + b) % U16Modulus

(***************************************************************************)
(* grid_utils.rs                                                           *)
(***************************************************************************)
DisplayRowColumnNumber == {"Always", "Never"}

\* DisplayNumbersType::Row(v) / Column(v)
Row(v) == [kind |-> "Row", value |-> v]
Column(v) == [kind |-> "Column", value |-> v]

get_value(t) == t.value

DISPLAY_NUMBERS_ROW == Row(1)
DISPLAY_NUMBERS_COL == Column(5)

(***************************************************************************)
(* Option<T>                                                               *)
(***************************************************************************)
None == [some |-> FALSE]
Some(v) == [some |-> TRUE, value |-> v]

VARIABLES
    area,                       \* the terminal's frame area [height, width]
    style_map,                  \* GridVisualiser.style_map
    display_row_column_number,  \* GridVisualiser.display_row_column_number
    row_column_number_style,    \* GridVisualiser.row_column_number_style
    max_rows,                   \* GridVisualiser.max_rows
    max_cols,                   \* GridVisualiser.max_cols
    overflow_checks,            \* build profile: TRUE debug, FALSE release
    last,                       \* the last call: operation, arguments, result
    rendered                    \* the GridCell::render calls of the last draw, in order

vars == <<area, style_map, display_row_column_number, row_column_number_style,
          max_rows, max_cols, overflow_checks, last, rendered>>

config == <<area, style_map, display_row_column_number, row_column_number_style,
            max_rows, max_cols, overflow_checks>>

NoCall == [op |-> "none"]

(***************************************************************************)
(* GridVisualiser::calculate_viewable_grid_size                            *)
(***************************************************************************)
Ok(rows, cols) == [kind |-> "Ok", rows |-> rows, cols |-> cols]
Err(msg) == [kind |-> "Err", msg |-> msg]
Panicked == [kind |-> "Panic"]

\* Mutant: the Never branch divides by the content size, forgetting the shared border.
viewable_rows_cols_never_no_border(mode, a, content_max_height, content_max_width, checks) ==
    IF mode = "Always"
    THEN LET cell_width == Max(get_value(DISPLAY_NUMBERS_COL), content_max_width)
             cell_height == Max(get_value(DISPLAY_NUMBERS_ROW), content_max_height)
         IN  <<UsizeDiv(UsizeSub(UsizeSub(a.height, cell_height, checks), 2, checks),
                        cell_height + 1),
               UsizeDiv(UsizeSub(UsizeSub(a.width, cell_width, checks), 2, checks),
                        cell_width + 1)>>
    ELSE <<UsizeDiv(UsizeSub(a.height, 1, checks), content_max_height),
           UsizeDiv(UsizeSub(a.width, 1, checks), content_max_width)>>

\* Mutant: the Always branch sizes the cells by the content alone, ignoring the
\* minimum size of a number cell.
viewable_rows_cols_always_content_size(mode, a, content_max_height, content_max_width, checks) ==
    IF mode = "Always"
    THEN LET cell_width == content_max_width
             cell_height == content_max_height
         IN  <<UsizeDiv(UsizeSub(UsizeSub(a.height, cell_height, checks), 2, checks),
                        cell_height + 1),
               UsizeDiv(UsizeSub(UsizeSub(a.width, cell_width, checks), 2, checks),
                        cell_width + 1)>>
    ELSE <<UsizeDiv(UsizeSub(a.height, 1, checks), content_max_height + 1),
           UsizeDiv(UsizeSub(a.width, 1, checks), content_max_width + 1)>>

\* The match on display_row_column_number: the (no_rows, no_cols) that fit.
viewable_rows_cols(mode, a, content_max_height, content_max_width, checks) ==
    IF mode = "Always"
    THEN LET cell_width == Max(get_value(DISPLAY_NUMBERS_COL), content_max_width)
             cell_height == Max(get_value(DISPLAY_NUMBERS_ROW), content_max_height)
         IN  <<UsizeDiv(UsizeSub(UsizeSub(a.height, cell_height, checks), 2, checks),
                        cell_height + 1),
               UsizeDiv(UsizeSub(UsizeSub(a.width, cell_width, checks), 2, checks),
                        cell_width + 1)>>
    ELSE <<UsizeDiv(UsizeSub(a.height, 1, checks), content_max_height + 1),
           UsizeDiv(UsizeSub(a.width, 1, checks), content_max_width + 1)>>

\* Mutant: a configured limit replaces the computed value ("truncating to max").
apply_limit_assign(no, limit) ==
    IF limit.some THEN limit.value ELSE no

\* `if let Some(max) = self.max_.. { no = no.min(max) }`
apply_limit(no, limit) ==
    IF limit.some THEN Min(no, limit.value) ELSE no

\* Mutant: "no space" only when both dimensions are zero.
calculate_viewable_grid_size_both_zero(mode, a, limit_rows, limit_cols, content_max_height, content_max_width, checks) ==
    LET fit == viewable_rows_cols(mode, a, content_max_height, content_max_width, checks)
    IN  IF fit[1] = Panic \/ fit[2] = Panic THEN Panicked
        ELSE LET no_rows == apply_limit(fit[1], limit_rows)
                 no_cols == apply_limit(fit[2], limit_cols)
             IN  IF no_rows = 0 /\ no_cols = 0
                 THEN Err("No space to display grid")
                 ELSE Ok(no_rows, no_cols)

calculate_viewable_grid_size(mode, a, limit_rows, limit_cols, content_max_height, content_max_width, checks) ==
    LET fit == viewable_rows_cols(mode, a, content_max_height, content_max_width, checks)
    IN  IF fit[1] = Panic \/ fit[2] = Panic THEN Panicked
        ELSE LET no_rows == apply_limit(fit[1], limit_rows)
                 no_cols == apply_limit(fit[2], limit_cols)
             IN  IF no_rows = 0 \/ no_cols = 0
                 THEN Err("No space to display grid")
                 ELSE Ok(no_rows, no_cols)

CalculateViewableGridSize ==
    \E ch \in 1..MaxContentHeight, cw \in 1..MaxContentWidth :
        /\ last' = [op |-> "calculate_viewable_grid_size",
                    content_max_height |-> ch,
                    content_max_width |-> cw,
                    ret |-> calculate_viewable_grid_size(
                                display_row_column_number, area, max_rows, max_cols,
                                ch, cw, overflow_checks)]
        /\ UNCHANGED <<config, rendered>>

\* GridVisualiser::new / new_with_limits over a terminal of some area.
SizeInit ==
    /\ area \in [height : 0..MaxHeight, width : 0..MaxWidth]
    /\ style_map = <<>>
    /\ display_row_column_number \in DisplayRowColumnNumber
    /\ row_column_number_style = None
    /\ \/ max_rows = None /\ max_cols = None
       \/ \E r \in 0..MaxCap, c \in 0..MaxCap :
              max_rows = Some(r) /\ max_cols = Some(c)
    /\ overflow_checks \in BOOLEAN
    /\ last = NoCall
    /\ rendered = <<>>

SizeNext == CalculateViewableGridSize

SizeSpec == SizeInit /\ [][SizeNext]_vars

(***************************************************************************)
(* GridVisualiser::create_constraints                                      *)
(***************************************************************************)
\* A Vec of Constraint::Length(n), as the sequence of the lengths n.
OkConstraints(constraints) == [kind |-> "Ok", constraints |-> constraints]

\* Ok(constraints), unless one of the u16 additions panicked.
constraints_result(constraints) ==
    IF \E i \in 1..Len(constraints) : constraints[i] = Panic
    THEN Panicked
    ELSE OkConstraints(constraints)

\* Mutant: only the header band takes the minimum size of a number cell; the
\* content bands keep the caller's cell size.
create_constraints_content_by_input(cell_count, input_cell_size, show_numbers, constraint_type, checks) ==
    LET cell_size == IF show_numbers = "Always"
                     THEN Max(constraint_type.value, input_cell_size)
                     ELSE input_cell_size
        header == IF show_numbers = "Always"
                  THEN <<U16Add(AsU16(cell_size), 1, checks)>>
                  ELSE <<>>
        bands == [idx \in 1..cell_count |->
                     IF idx - 1 = cell_count - 1
                     THEN U16Add(AsU16(input_cell_size), 2, checks)
                     ELSE U16Add(AsU16(input_cell_size), 1, checks)]
    IN  constraints_result(header \o bands)

\* Mutant: the last band gets no extra character for the closing border.
create_constraints_no_closing_border(cell_count, input_cell_size, show_numbers, constraint_type, checks) ==
    LET cell_size == IF show_numbers = "Always"
                     THEN Max(constraint_type.value, input_cell_size)
                     ELSE input_cell_size
        header == IF show_numbers = "Always"
                  THEN <<U16Add(AsU16(cell_size), 1, checks)>>
                  ELSE <<>>
        bands == [idx \in 1..cell_count |-> U16Add(AsU16(cell_size), 1, checks)]
    IN  constraints_result(header \o bands)

\* idx is the 1-based position of the band; the code's enumerate index is idx - 1.
\* There is no path that returns Err.
create_constraints(cell_count, input_cell_size, show_numbers, constraint_type, checks) ==
    LET cell_size == IF show_numbers = "Always"
                     THEN Max(constraint_type.value, input_cell_size)
                     ELSE input_cell_size
        header == IF show_numbers = "Always"
                  THEN <<U16Add(AsU16(cell_size), 1, checks)>>
                  ELSE <<>>
        bands == [idx \in 1..cell_count |->
                     IF idx - 1 = cell_count - 1
                     THEN U16Add(AsU16(cell_size), 2, checks)
                     ELSE U16Add(AsU16(cell_size), 1, checks)]
    IN  constraints_result(header \o bands)

\* A direct call, as the unit tests make it.
CreateConstraints ==
    \E cell_count \in 0..MaxCellCount,
       input_cell_size \in 1..MaxCellSize,
       show_numbers \in DisplayRowColumnNumber,
       header_size \in 1..MaxHeaderSize,
       constraint_type \in {"Row", "Column"} :
        /\ last' = [op |-> "create_constraints",
                    cell_count |-> cell_count,
                    input_cell_size |-> input_cell_size,
                    show_numbers |-> show_numbers,
                    constraint_type |-> IF constraint_type = "Row"
                                        THEN Row(header_size)
                                        ELSE Column(header_size),
                    ret |-> create_constraints(
                                cell_count, input_cell_size, show_numbers,
                                IF constraint_type = "Row"
                                THEN Row(header_size)
                                ELSE Column(header_size),
                                overflow_checks)]
        /\ UNCHANGED <<config, rendered>>

\* create_constraints takes no self: no visualiser is involved, only the build.
ConstraintInit ==
    /\ area = [height |-> 0, width |-> 0]
    /\ style_map = <<>>
    /\ display_row_column_number = "Never"
    /\ row_column_number_style = None
    /\ max_rows = None
    /\ max_cols = None
    /\ overflow_checks \in BOOLEAN
    /\ last = NoCall
    /\ rendered = <<>>

ConstraintNext == CreateConstraints

ConstraintSpec == ConstraintInit /\ [][ConstraintNext]_vars

(***************************************************************************)
(* The element type of the tests (TestGridItem) and the views drawn.       *)
(***************************************************************************)
Letters == <<"A", "B", "C", "D", "E", "F", "G", "H", "I", "J", "K", "L", "M", "N", "O", "P">>

\* The logical board: MaxBoard x MaxBoard items, distinct letters in row-major
\* order, but for the '#' of test_draw_ref_with_style at row 0, column 1.
Board(r, c) ==
    IF r = 0 /\ c = 1 THEN "#" ELSE Letters[((r * MaxBoard + c) % Len(Letters)) + 1]

\* ArrayView2: the whole board (grid.view()) or a slice of it that keeps the
\* rows and columns from some index on (grid.slice(s![.., 1..])); a slice from
\* MaxBoard on has no rows, or no columns.
Views ==
    {[row0 |-> r, col0 |-> c, nrows |-> MaxBoard - r, ncols |-> MaxBoard - c] :
        r \in 0..MaxBoard, c \in 0..MaxBoard}

\* grid[[i, j]]: indices are local to the view.
Index(grid, i, j) == Board(grid.row0 + i, grid.col0 + j)

\* impl Display for TestGridItem: the item's character.  A String is the
\* sequence of its characters.
to_string(item) == <<item>>

\* impl RatatuiStylised for TestGridItem
get_style(item) == IF item = "#" THEN Some("Red") ELSE None

\* RatatuiStylised::get_cell_content_max_dimensions, the default (rows, cols).
get_cell_content_max_dimensions == <<1, 1>>

Digit(d) == <<"0", "1", "2", "3", "4", "5", "6", "7", "8", "9">>[d + 1]

\* format!("{}", n) of a usize: its decimal digits.
RECURSIVE format(_)
format(n) == IF n < 10 THEN <<Digit(n)>> ELSE format(n \div 10) \o <<Digit(n % 10)>>

(***************************************************************************)
(* GridCell and GridCellEdge                                               *)
(***************************************************************************)
\* GridCellEdge, a bit set, as the set of the flags that are set.
TOP == "TOP"
RIGHT == "RIGHT"
BOTTOM == "BOTTOM"
LEFT == "LEFT"

DefaultStyle == "Default"

\* GridCell::new / GridCell::with_style, with the position it is rendered at.
GridCell(row_idx, col_idx, value, style, edge) ==
    [row_idx |-> row_idx, col_idx |-> col_idx, value |-> value, style |-> style, edge |-> edge]

\* Rect::new
Rect(x, y, width, height) == [x |-> x, y |-> y, width |-> width, height |-> height]

\* symbols::border::PLAIN, its glyphs by the names symbols::line gives them.
PLAIN ==
    [top_left |-> "TOP_LEFT", top_right |-> "TOP_RIGHT",
     bottom_left |-> "BOTTOM_LEFT", bottom_right |-> "BOTTOM_RIGHT",
     vertical_left |-> "VERTICAL", vertical_right |-> "VERTICAL",
     horizontal_top |-> "HORIZONTAL", horizontal_bottom |-> "HORIZONTAL"]

\* Mutant: every cell draws all four sides.
generate_borders_all(edge) == {TOP, RIGHT, BOTTOM, LEFT}

\* GridCell::generate_borders: the Borders flags, named as the edge flags are.
generate_borders(edge) ==
    {TOP, LEFT}
    \cup (IF RIGHT \in edge THEN {RIGHT} ELSE {})
    \cup (IF BOTTOM \in edge THEN {BOTTOM} ELSE {})

\* Mutant: the top-left glyph looks at TOP only.
generate_border_set_top_only(edge) ==
    [PLAIN EXCEPT
        !.top_left = IF TOP \in edge THEN "TOP_LEFT" ELSE "CROSS",
        !.top_right = IF RIGHT \in edge
                      THEN IF TOP \in edge THEN "TOP_RIGHT" ELSE "VERTICAL_LEFT"
                      ELSE PLAIN.top_right,
        !.bottom_left = IF BOTTOM \in edge
                        THEN IF LEFT \in edge THEN "BOTTOM_LEFT" ELSE "HORIZONTAL_UP"
                        ELSE PLAIN.bottom_left]

\* Mutant: only the top-left glyph is chosen, the other corners stay plain.
generate_border_set_plain_corners(edge) ==
    [PLAIN EXCEPT
        !.top_left = IF TOP \in edge
                     THEN IF LEFT \in edge THEN "TOP_LEFT" ELSE "HORIZONTAL_DOWN"
                     ELSE IF LEFT \in edge THEN "VERTICAL_RIGHT" ELSE "CROSS"]

\* GridCell::generate_border_set: the three matches on pairs of flags; the
\* arms `_ => border_set.top_right` and `_ => border_set.bottom_left` keep
\* PLAIN's glyph, and bottom_right is never assigned.
generate_border_set(edge) ==
    [PLAIN EXCEPT
        !.top_left = IF TOP \in edge
                     THEN IF LEFT \in edge THEN "TOP_LEFT" ELSE "HORIZONTAL_DOWN"
                     ELSE IF LEFT \in edge THEN "VERTICAL_RIGHT" ELSE "CROSS",
        !.top_right = IF RIGHT \in edge
                      THEN IF TOP \in edge THEN "TOP_RIGHT" ELSE "VERTICAL_LEFT"
                      ELSE PLAIN.top_right,
        !.bottom_left = IF BOTTOM \in edge
                        THEN IF LEFT \in edge THEN "BOTTOM_LEFT" ELSE "HORIZONTAL_UP"
                        ELSE PLAIN.bottom_left]

\* A position of the buffer, and whether a rectangle holds it.
Position(x, y) == [x |-> x, y |-> y]
contains(r, p) ==
    /\ r.x <= p.x /\ p.x < r.x + r.width
    /\ r.y <= p.y /\ p.y < r.y + r.height

\* A buffer cell after Buffer::reset: a space in the default style.
EmptyCell == [symbol |-> " ", style |-> DefaultStyle]

\* Block::inner: the area less one line for each side that has a border.
inner(borders, r) ==
    LET left == IF LEFT \in borders THEN 1 ELSE 0
        top == IF TOP \in borders THEN 1 ELSE 0
        right == IF RIGHT \in borders THEN 1 ELSE 0
        bottom == IF BOTTOM \in borders THEN 1 ELSE 0
    IN  Rect(Min(r.x + left, r.x + r.width), Min(r.y + top, r.y + r.height),
             Max(r.width - left - right, 0), Max(r.height - top - bottom, 0))

\* Mutant: the right and bottom lines are drawn one position past the area.
block_render_past_area(borders, border_set, r, cell, p) ==
    IF RIGHT \in borders /\ p.x = r.x + r.width /\ r.y <= p.y /\ p.y < r.y + r.height
    THEN [cell EXCEPT !.symbol = border_set.vertical_right]
    ELSE IF BOTTOM \in borders /\ p.y = r.y + r.height /\ r.x <= p.x /\ p.x < r.x + r.width
    THEN [cell EXCEPT !.symbol = border_set.horizontal_bottom]
    ELSE IF ~contains(r, p) THEN cell
    ELSE IF p.x = r.x /\ p.y = r.y
    THEN [cell EXCEPT !.symbol = border_set.top_left]
    ELSE IF p.x = r.x
    THEN [cell EXCEPT !.symbol = border_set.vertical_left]
    ELSE IF p.y = r.y
    THEN [cell EXCEPT !.symbol = border_set.horizontal_top]
    ELSE cell

\* block.render(area, buf), as it leaves one buffer cell: the block has the
\* default style, so only symbols change.  Block draws the left, top, right
\* and bottom lines and then the corners whose two sides are both drawn
\* (bottom-right, top-right, bottom-left, top-left); the last write stands.
block_render(borders, border_set, r, cell, p) ==
    LET on_left == p.x = r.x
        on_top == p.y = r.y
        on_right == p.x = r.x + r.width - 1
        on_bottom == p.y = r.y + r.height - 1
    IN  IF ~contains(r, p) THEN cell
        ELSE IF {LEFT, TOP} \subseteq borders /\ on_left /\ on_top
        THEN [cell EXCEPT !.symbol = border_set.top_left]
        ELSE IF {LEFT, BOTTOM} \subseteq borders /\ on_left /\ on_bottom
        THEN [cell EXCEPT !.symbol = border_set.bottom_left]
        ELSE IF {RIGHT, TOP} \subseteq borders /\ on_right /\ on_top
        THEN [cell EXCEPT !.symbol = border_set.top_right]
        ELSE IF {RIGHT, BOTTOM} \subseteq borders /\ on_right /\ on_bottom
        THEN [cell EXCEPT !.symbol = border_set.bottom_right]
        ELSE IF BOTTOM \in borders /\ on_bottom
        THEN [cell EXCEPT !.symbol = border_set.horizontal_bottom]
        ELSE IF RIGHT \in borders /\ on_right
        THEN [cell EXCEPT !.symbol = border_set.vertical_right]
        ELSE IF TOP \in borders /\ on_top
        THEN [cell EXCEPT !.symbol = border_set.horizontal_top]
        ELSE IF LEFT \in borders /\ on_left
        THEN [cell EXCEPT !.symbol = border_set.vertical_left]
        ELSE cell

\* Style::patch, for the styles of the model: the default style sets nothing.
patch(style, other) == IF other = DefaultStyle THEN style ELSE other

\* Mutant: the paragraph's style is set on the whole area of the cell.
paragraph_render_style_all(value, style, r, cell, p) ==
    LET offset == Max((r.width \div 2) - (Len(value) \div 2), 0)
        i == p.x - r.x - offset + 1
    IN  IF contains(r, p) /\ p.y = r.y /\ i \in 1..Len(value)
        THEN [symbol |-> value[i], style |-> patch(cell.style, style)]
        ELSE [cell EXCEPT !.style = patch(cell.style, style)]

\* Mutant: the line is left-aligned.
paragraph_render_left_aligned(value, style, r, cell, p) ==
    LET i == p.x - r.x + 1
    IN  IF ~contains(r, p) THEN cell
        ELSE IF p.y = r.y /\ i \in 1..Len(value)
        THEN [symbol |-> value[i], style |-> patch(cell.style, style)]
        ELSE [cell EXCEPT !.style = patch(cell.style, style)]

\* Paragraph::new(value).style(style).centered().render(inner_area, buf), as
\* it leaves one buffer cell: the style is set on the whole area, the one
\* line of the value goes on the area's first row, shifted right by half the
\* width less half the line (Alignment::Center), and what does not fit in
\* the row is cut.
paragraph_render(value, style, r, cell, p) ==
    LET offset == Max((r.width \div 2) - (Len(value) \div 2), 0)
        i == p.x - r.x - offset + 1
    IN  IF ~contains(r, p) THEN cell
        ELSE IF p.y = r.y /\ i \in 1..Len(value)
        THEN [symbol |-> value[i], style |-> patch(cell.style, style)]
        ELSE [cell EXCEPT !.style = patch(cell.style, style)]

\* A call grid_cell.render(area, buf): the cell and the area it is given.
render_call(cell, r) ==
    [row_idx |-> cell.row_idx, col_idx |-> cell.col_idx, value |-> cell.value,
     style |-> cell.style, edge |-> cell.edge, rect |-> r]

\* impl Widget for GridCell, render, as it leaves one buffer cell.
render(call, cell, p) ==
    LET border_set == generate_border_set(call.edge)
        borders == generate_borders(call.edge)
        inner_area == inner(borders, call.rect)
    IN  paragraph_render(call.value, call.style, inner_area,
                         block_render(borders, border_set, call.rect, cell, p), p)

\* The buffer cell at a position once the calls have rendered, in order, into
\* the buffer Terminal::draw hands to its closure, which it has reset.
RECURSIVE paint(_, _, _)
paint(calls, k, p) ==
    IF k = 0 THEN EmptyCell ELSE render(calls[k], paint(calls, k - 1, p), p)

(***************************************************************************)
(* GridVisualiser::draw_ref                                                *)
(***************************************************************************)
RECURSIVE length_before(_, _)
length_before(constraints, i) ==
    IF i = 1 THEN 0 ELSE length_before(constraints, i - 1) + constraints[i - 1]

\* Layout::default().direction(d).constraints(c).split(area): one rectangle
\* per Length constraint, laid from the start of the area in order, each of
\* its length (Flex::Start); a rectangle ends where the area ends.
split(r, direction, constraints) ==
    [i \in 1..Len(constraints) |->
        LET extent == IF direction = "Vertical" THEN r.height ELSE r.width
            start == Min(length_before(constraints, i), extent)
            length == Min(constraints[i], extent - start)
        IN  IF direction = "Vertical"
            THEN Rect(r.x, r.y + start, r.width, length)
            ELSE Rect(r.x + start, r.y, length, r.height)]

\* Mutant: the Always branch marks the bottom and right edges as the Never
\* branch does, forgetting that the header shifts the last row and column.
edge_always_as_never(row_idx, col_idx, grid) ==
    (IF row_idx = 0 THEN {TOP} ELSE {})
    \cup (IF row_idx = grid.nrows - 1 THEN {BOTTOM} ELSE {})
    \cup (IF col_idx = 0 THEN {LEFT} ELSE {})
    \cup (IF col_idx = grid.ncols - 1 THEN {RIGHT} ELSE {})

\* The edge flags of the Always branch.
edge_always(row_idx, col_idx, grid) ==
    (IF row_idx = 0 THEN {TOP} ELSE {})
    \cup (IF row_idx = grid.nrows THEN {BOTTOM} ELSE {})
    \cup (IF col_idx = 0 THEN {LEFT} ELSE {})
    \cup (IF col_idx = grid.ncols THEN {RIGHT} ELSE {})

\* Mutant: the Never branch marks no cell as being on an edge.
edge_never_none(row_idx, col_idx, grid) == {}

\* The edge flags of the Never branch.  It runs inside the loops over the
\* bands, so nrows >= 1 and ncols >= 1 and the subtractions cannot underflow.
edge_never(row_idx, col_idx, grid) ==
    (IF row_idx = 0 THEN {TOP} ELSE {})
    \cup (IF row_idx = grid.nrows - 1 THEN {BOTTOM} ELSE {})
    \cup (IF col_idx = 0 THEN {LEFT} ELSE {})
    \cup (IF col_idx = grid.ncols - 1 THEN {RIGHT} ELSE {})

\* Mutant: the label is the offset plus the index of the item in the view.
header_label_item_index(idx, offset) == format(idx - 1 + offset)

\* Mutant: the label ignores the offset.
header_label_no_offset(idx, offset) == format(idx)

\* format!("{}", col_idx + col_offset) and format!("{}", row_idx + row_offset):
\* idx is the loop index over the bands, of which the header band is number 0.
header_label(idx, offset) == format(idx + offset)

\* The body of the Always branch's inner loop: the cell rendered at a position.
cell_always(row_idx, col_idx, grid, row_offset, col_offset, numbers_style) ==
    LET value == IF row_idx = 0
                 THEN IF col_idx # 0 THEN header_label(col_idx, col_offset) ELSE <<>>
                 ELSE IF col_idx = 0 THEN header_label(row_idx, row_offset)
                      ELSE to_string(Index(grid, row_idx - 1, col_idx - 1))
        edge == edge_always(row_idx, col_idx, grid)
        style == IF row_idx # 0 /\ col_idx # 0
                 THEN LET s == get_style(Index(grid, row_idx - 1, col_idx - 1))
                      IN  IF s.some THEN s.value ELSE DefaultStyle
                 ELSE IF numbers_style.some THEN numbers_style.value ELSE DefaultStyle
    IN  GridCell(row_idx, col_idx, value, style, edge)

\* Mutant: the Never branch indexes the board, not the view.
cell_never_board_index(row_idx, col_idx, grid) ==
    GridCell(row_idx, col_idx, to_string(Board(row_idx, col_idx)),
             IF get_style(Board(row_idx, col_idx)).some
             THEN get_style(Board(row_idx, col_idx)).value ELSE DefaultStyle,
             edge_never(row_idx, col_idx, grid))

\* The body of the Never branch's inner loop.
cell_never(row_idx, col_idx, grid) ==
    LET value == to_string(Index(grid, row_idx, col_idx))
        edge == edge_never(row_idx, col_idx, grid)
        s == get_style(Index(grid, row_idx, col_idx))
        style == IF s.some THEN s.value ELSE DefaultStyle
    IN  GridCell(row_idx, col_idx, value, style, edge)

\* The render calls of the two nested loops, in order: row by row, each row
\* band split into its column bands.
render_calls(mode, grid, row_offset, col_offset, numbers_style, rows, col_constraint) ==
    LET ncols == Len(col_constraint)
        n == Len(rows) * ncols
    IN  [k \in 1..n |->
            LET row_idx == (k - 1) \div ncols
                col_idx == (k - 1) % ncols
                cols == split(rows[row_idx + 1], "Horizontal", col_constraint)
            IN  render_call(IF mode = "Always"
                            THEN cell_always(row_idx, col_idx, grid, row_offset,
                                             col_offset, numbers_style)
                            ELSE cell_never(row_idx, col_idx, grid),
                            cols[col_idx + 1])]

\* The (row_offset, col_offset) pairs of the tests.
Offsets == {<<0, 0>>, <<5, 10>>}

\* f.area(): the whole terminal.
frame_area == Rect(0, 0, area.width, area.height)

\* Mutant: a draw forgets the caps.
draw_ref_fields_drop_caps ==
    /\ max_rows' = None
    /\ max_cols' = None
    /\ UNCHANGED <<area, style_map, display_row_column_number,
                   row_column_number_style, overflow_checks>>

\* The fields of self that the closure of draw_ref reads: it assigns none.
draw_ref_fields == UNCHANGED config

DrawRef ==
    \E grid \in Views, offsets \in Offsets :
        LET row_offset == offsets[1]
            col_offset == offsets[2]
            dims == get_cell_content_max_dimensions
            row_constraint == create_constraints(grid.nrows, dims[1],
                                  display_row_column_number, DISPLAY_NUMBERS_ROW,
                                  overflow_checks)
            col_constraint == create_constraints(grid.ncols, dims[2],
                                  display_row_column_number, DISPLAY_NUMBERS_COL,
                                  overflow_checks)
        IN  IF row_constraint.kind # "Ok" \/ col_constraint.kind # "Ok"
            THEN \* .expect("Error creating .. constraint")
                 /\ last' = [op |-> "draw_ref", grid |-> grid,
                             row_offset |-> row_offset, col_offset |-> col_offset,
                             row_constraint |-> row_constraint,
                             col_constraint |-> col_constraint,
                             numbers_style |-> row_column_number_style,
                             ret |-> Panicked]
                 /\ rendered' = <<>>
                 /\ draw_ref_fields
            ELSE /\ last' = [op |-> "draw_ref", grid |-> grid,
                             row_offset |-> row_offset, col_offset |-> col_offset,
                             row_constraint |-> row_constraint,
                             col_constraint |-> col_constraint,
                             numbers_style |-> row_column_number_style,
                             ret |-> [kind |-> "Ok"]]
                 /\ rendered' = render_calls(display_row_column_number, grid,
                                             row_offset, col_offset,
                                             row_column_number_style,
                                             split(frame_area, "Vertical",
                                                   row_constraint.constraints),
                                             col_constraint.constraints)
                 /\ draw_ref_fields

StyleNames == {"wall"}
Styles == {"Gray"}

\* style_map.insert(name, style)
AddStyle ==
    \E name \in StyleNames, style \in Styles :
        /\ style_map' = [n \in (DOMAIN style_map) \cup {name} |->
                            IF n = name THEN style ELSE style_map[n]]
        /\ UNCHANGED <<area, display_row_column_number, row_column_number_style,
                       max_rows, max_cols, overflow_checks, last, rendered>>

SetNumbersStyle ==
    \E style \in Styles :
        /\ row_column_number_style' = Some(style)
        /\ UNCHANGED <<area, style_map, display_row_column_number,
                       max_rows, max_cols, overflow_checks, last, rendered>>

\* The size of a terminal that exactly fits a grid of rows x cols items, as
\* the draw_ref tests size theirs: 5 x 5 for 2 x 2 items without headers,
\* 19 x 7 with them.
fit_area(mode, rows, cols) ==
    LET dims == get_cell_content_max_dimensions
    IN  IF mode = "Always"
        THEN [height |-> (rows + 1) * (Max(get_value(DISPLAY_NUMBERS_ROW), dims[1]) + 1) + 1,
              width |-> (cols + 1) * (Max(get_value(DISPLAY_NUMBERS_COL), dims[2]) + 1) + 1]
        ELSE [height |-> rows * (dims[1] + 1) + 1, width |-> cols * (dims[2] + 1) + 1]

\* GridVisualiser::new, or new_with_limits, over a TestBackend terminal.
Init ==
    /\ display_row_column_number \in DisplayRowColumnNumber
    /\ \E rows \in 1..MaxBoard, cols \in 1..MaxBoard :
           area = fit_area(display_row_column_number, rows, cols)
    /\ style_map = <<>>
    /\ row_column_number_style = None
    /\ \/ max_rows = None /\ max_cols = None
       \/ max_rows = Some(1) /\ max_cols = Some(2)
    /\ overflow_checks \in BOOLEAN
    /\ last = NoCall
    /\ rendered = <<>>

Next ==
    \/ AddStyle
    \/ SetNumbersStyle
    \/ DrawRef

Spec == Init /\ [][Next]_vars

(***************************************************************************)
(* A GridCell rendered on its own, as the tests of grid_cell.rs do: into   *)
(* the whole of a buffer.  render takes the cell by value, once.           *)
(***************************************************************************)
CellValues == {<<>>, <<"#">>, <<"1", "1">>}
CellStyles == {DefaultStyle, "Red"}
Edges == SUBSET {TOP, RIGHT, BOTTOM, LEFT}

Render ==
    /\ last.op = "GridCell"
    /\ last' = [op |-> "render", value |-> last.value, style |-> last.style,
                edge |-> last.edge,
                borders |-> generate_borders(last.edge),
                border_set |-> generate_border_set(last.edge)]
    /\ rendered' = <<render_call(GridCell(0, 0, last.value, last.style, last.edge),
                                 frame_area)>>
    /\ UNCHANGED config

CellInit ==
    /\ area \in [height : 0..(MaxCellSize + 2), width : 0..(MaxCellSize + 2)]
    /\ style_map = <<>>
    /\ display_row_column_number = "Never"
    /\ row_column_number_style = None
    /\ max_rows = None
    /\ max_cols = None
    /\ overflow_checks \in BOOLEAN
    /\ \E value \in CellValues, style \in CellStyles, edge \in Edges :
           last = [op |-> "GridCell", value |-> value, style |-> style, edge |-> edge]
    /\ rendered = <<>>

CellNext == Render

CellSpec == CellInit /\ [][CellNext]_vars

\* The buffer after the last draw or render.
buffer(p) == paint(rendered, Len(rendered), p)
Positions == {Position(x, y) : x \in 0..(area.width - 1), y \in 0..(area.height - 1)}

(***************************************************************************)
(* aoc-collections: find_middle_element and find_next_element, functions   *)
(* of their arguments.  A Vec is a sequence; its indices start at 0.       *)
(***************************************************************************)
MaxLen == 4
MaxElement == 2

Collections == UNION {[1..n -> 1..MaxElement] : n \in 0..MaxLen}

FindMiddleElementMode == {"Error", "Left", "Right"}
FindMode == {"Ascending", "Descending"}

\* Ok(&collection[i]): the index and the element it refers to.
OkRef(collection, i) == [kind |-> "Ok", index |-> i, item |-> collection[i + 1]]

\* &collection[i]: out of bounds it panics.
index_ref(collection, i) ==
    IF i = Panic \/ i >= Len(collection) THEN Panicked ELSE OkRef(collection, i)

\* Mutant: Left mode returns the element at the midpoint.
find_middle_element_left_at_midpoint(collection, mode, checks) ==
    IF Len(collection) % 2 = 0 /\ mode = "Error"
    THEN Err("Collection has even number of elements and error mode used")
    ELSE index_ref(collection, Len(collection) \div 2)

\* find_middle_element; midpoint - 1 is a usize subtraction.
find_middle_element(collection, mode, checks) ==
    LET midpoint == Len(collection) \div 2
    IN  IF Len(collection) % 2 = 0
        THEN IF mode = "Error"
             THEN Err("Collection has even number of elements and error mode used")
             ELSE IF mode = "Left"
             THEN index_ref(collection, UsizeSub(midpoint, 1, checks))
             ELSE index_ref(collection, midpoint)
        ELSE index_ref(collection, midpoint)

\* iter().position(|x| x == element) over the slice collection[start ..],
\* mapped to an index of the collection; i is the next index to look at.
RECURSIVE position(_, _, _)
position(collection, element, i) ==
    IF i >= Len(collection) THEN None
    ELSE IF collection[i + 1] = element THEN Some(i)
    ELSE position(collection, element, i + 1)

\* (0 .. starting_index).rev().find(|&i| &collection[i] == element); i is the
\* next index to look at, below 0 the range is exhausted.
RECURSIVE rev_find(_, _, _)
rev_find(collection, element, i) ==
    IF i < 0 THEN None
    ELSE IF i >= Len(collection) THEN Panicked
    ELSE IF collection[i + 1] = element THEN Some(i)
    ELSE rev_find(collection, element, i - 1)

\* Mutant: the search starts at starting_index itself.
find_next_element_from_start(collection, starting_index, element, mode) ==
    IF mode = "Ascending"
    THEN IF starting_index > Len(collection) THEN Panicked
         ELSE position(collection, element, starting_index)
    ELSE rev_find(collection, element, starting_index)

\* find_next_element; the slice collection[starting_index + 1 ..] panics when
\* it starts past the end.
find_next_element(collection, starting_index, element, mode) ==
    IF mode = "Ascending"
    THEN IF starting_index + 1 > Len(collection) THEN Panicked
         ELSE position(collection, element, starting_index + 1)
    ELSE rev_find(collection, element, starting_index - 1)

\* The arguments of a call, then the call.
FindMiddleElement ==
    /\ last.op = "args"
    /\ last.fn = "find_middle_element"
    /\ last' = [op |-> "find_middle_element", collection |-> last.collection,
                mode |-> last.mode,
                ret |-> find_middle_element(last.collection, last.mode, overflow_checks)]
    /\ UNCHANGED <<config, rendered>>

FindNextElement ==
    /\ last.op = "args"
    /\ last.fn = "find_next_element"
    /\ last' = [op |-> "find_next_element", collection |-> last.collection,
                starting_index |-> last.starting_index, element |-> last.element,
                mode |-> last.mode,
                ret |-> find_next_element(last.collection, last.starting_index,
                                          last.element, last.mode)]
    /\ UNCHANGED <<config, rendered>>

\* The fields of the visualiser play no part here.
NoVisualiser ==
    /\ area = [height |-> 0, width |-> 0]
    /\ style_map = <<>>
    /\ display_row_column_number = "Never"
    /\ row_column_number_style = None
    /\ max_rows = None
    /\ max_cols = None
    /\ rendered = <<>>

SearchInit ==
    /\ NoVisualiser
    /\ overflow_checks \in BOOLEAN
    /\ \E collection \in Collections :
           \/ \E mode \in FindMiddleElementMode :
                  last = [op |-> "args", fn |-> "find_middle_element",
                          collection |-> collection, mode |-> mode]
           \/ \E starting_index \in 0..Len(collection), element \in 1..MaxElement,
                 mode \in FindMode :
                  last = [op |-> "args", fn |-> "find_next_element",
                          collection |-> collection, starting_index |-> starting_index,
                          element |-> element, mode |-> mode]

SearchNext ==
    \/ FindMiddleElement
    \/ FindNextElement

SearchSpec == SearchInit /\ [][SearchNext]_vars

(***************************************************************************)
(* aoc-slices: counting the occurrences of a sub-slice.                    *)
(***************************************************************************)
\* The byte slices of the calls: the bounded sequences, their elements read
\* as bytes.
ByteSlices == Collections

\* A &u8: equality of references compares what they refer to.
Ref(byte) == [deref |-> byte]
Refs(slice) == [i \in DOMAIN slice |-> Ref(slice[i])]

\* self.windows(len): every run of len consecutive items, in order; a window
\* size of 0 panics.
windows(self, len) ==
    IF len = 0 THEN Panicked
    ELSE [kind |-> "Ok",
          items |-> [i \in 1..(Len(self) - len + 1) |-> SubSeq(self, i, i + len - 1)]]

\* Mutant: occurrences are counted as present or absent.
count_slice_any(self, slice) ==
    [kind |-> "Ok",
     count |-> IF \E i \in 1..(Len(self) - Len(slice) + 1) :
                      SubSeq(self, i, i + Len(slice) - 1) = slice
               THEN 1 ELSE 0]

\* CountSlice::count_slice for [Item].  The count is at most the length of
\* self, far below 2^32 for the slices here: `as u32` keeps it.
count_slice(self, slice) ==
    LET len == Len(slice)
        w == windows(self, len)
    IN  IF w.kind = "Panic" THEN Panicked
        ELSE [kind |-> "Ok",
              count |-> Len(SelectSeq(w.items, LAMBDA sub_slice : sub_slice = slice))]

count_sub_slice_u8(slice, sub_slice) == count_slice(slice, sub_slice)

count_sub_slice_ref_u8(slice, sub_slice) == count_slice(slice, sub_slice)

CountSubSliceU8 ==
    /\ last.op = "args"
    /\ last.fn = "count_sub_slice_u8"
    /\ last' = [op |-> "count_sub_slice_u8", slice |-> last.slice,
                sub_slice |-> last.sub_slice,
                ret |-> count_sub_slice_u8(last.slice, last.sub_slice)]
    /\ UNCHANGED <<config, rendered>>

\* The same bytes, behind references.
CountSubSliceRefU8 ==
    /\ last.op = "args"
    /\ last.fn = "count_sub_slice_ref_u8"
    /\ last' = [op |-> "count_sub_slice_ref_u8", slice |-> last.slice,
                sub_slice |-> last.sub_slice,
                ret |-> count_sub_slice_ref_u8(Refs(last.slice), Refs(last.sub_slice))]
    /\ UNCHANGED <<config, rendered>>

SliceInit ==
    /\ NoVisualiser
    /\ overflow_checks \in BOOLEAN
    /\ \E slice \in ByteSlices, sub_slice \in ByteSlices,
          fn \in {"count_sub_slice_u8", "count_sub_slice_ref_u8"} :
           last = [op |-> "args", fn |-> fn, slice |-> slice, sub_slice |-> sub_slice]

SliceNext ==
    \/ CountSubSliceU8
    \/ CountSubSliceRefU8

SliceSpec == SliceInit /\ [][SliceNext]_vars

(***************************************************************************)
(* aoc-generators: apply_processor_to_input and the regex line processor   *)
(* with the regex (\d+) of the tests.  A &str is the sequence of its       *)
(* characters.                                                             *)
(***************************************************************************)
MaxInputLen == 5

Chars == {"a", "1", "2", "\n"}
Inputs == UNION {[1..n -> Chars] : n \in 0..MaxInputLen}

\* \d
is_digit(c) == c \in {"0", "1", "2", "3", "4", "5", "6", "7", "8", "9"}

\* input.lines(): the text between line feeds; a final line feed ends the
\* last line and starts no new one.
RECURSIVE lines(_)
lines(input) ==
    IF input = <<>> THEN <<>>
    ELSE LET feeds == {i \in 1..Len(input) : input[i] = "\n"}
         IN  IF feeds = {} THEN <<input>>
             ELSE LET k == CHOOSE i \in feeds : \A j \in feeds : i <= j
                  IN  <<SubSeq(input, 1, k - 1)>> \o lines(SubSeq(input, k + 1, Len(input)))

\* The end of the match of \d+ that starts at i: the regex is greedy.
RECURSIVE match_end(_, _)
match_end(line, i) ==
    IF i < Len(line) /\ is_digit(line[i + 1]) THEN match_end(line, i + 1) ELSE i

\* self.regex.find_iter(line), each match as a String, from position i on:
\* the leftmost match first, the next one behind its end.
RECURSIVE find_iter(_, _)
find_iter(line, i) ==
    IF i > Len(line) THEN <<>>
    ELSE IF is_digit(line[i])
    THEN <<SubSeq(line, i, match_end(line, i))>> \o find_iter(line, match_end(line, i) + 1)
    ELSE find_iter(line, i + 1)

\* self.regex.split(line) from position i on: the text between the matches,
\* empty where the line starts or ends with a match; piece is the text
\* since the last match.
RECURSIVE regex_split(_, _, _)
regex_split(line, i, piece) ==
    IF i > Len(line) THEN <<piece>>
    ELSE IF is_digit(line[i])
    THEN <<piece>> \o regex_split(line, match_end(line, i) + 1, <<>>)
    ELSE regex_split(line, i + 1, Append(piece, line[i]))

split_on_regex(line, strip_empty) ==
    LET split_strings == regex_split(line, 1, <<>>)
    IN  IF strip_empty THEN SelectSeq(split_strings, LAMBDA piece : piece # <<>>)
        ELSE split_strings

regex_matches(line) == find_iter(line, 1)

\* Mutant: a single match is returned once.
regex_first_last_single_once(line) ==
    IF Len(regex_matches(line)) <= 1 THEN regex_matches(line)
    ELSE <<regex_matches(line)[1], regex_matches(line)[Len(regex_matches(line))]>>

regex_first_last(line) ==
    LET matches == regex_matches(line)
    IN  IF Len(matches) = 0 THEN <<>>
        ELSE IF Len(matches) = 1 THEN <<matches[1], matches[1]>>
        ELSE <<matches[1], matches[Len(matches)]>>

\* The processors handed to apply_processor_to_input: RegexLineProcessor in
\* each of its modes, whose process is always Ok, and an implementation of
\* LineProcessor that fails, with the line as its error, on a line without
\* a match.
Processors == {"Split(true)", "Split(false)", "Matches", "FirstLast", "MatchesOrErr"}

OkItem(item) == [kind |-> "Ok", item |-> item]

\* processor.process(line)
process(processor, line) ==
    IF processor = "Split(true)" THEN OkItem(split_on_regex(line, TRUE))
    ELSE IF processor = "Split(false)" THEN OkItem(split_on_regex(line, FALSE))
    ELSE IF processor = "Matches" THEN OkItem(regex_matches(line))
    ELSE IF processor = "FirstLast" THEN OkItem(regex_first_last(line))
    ELSE IF regex_matches(line) = <<>> THEN Err(line)
    ELSE OkItem(regex_matches(line))

\* Mutant: every line is processed and the first error is returned at the end.
RECURSIVE process_all_lines(_, _, _, _, _)
process_all_lines(ls, k, processor, result, calls) ==
    IF k > Len(ls)
    THEN LET errors == {i \in 1..Len(ls) : process(processor, ls[i]).kind = "Err"}
         IN  [ret |-> IF errors = {} THEN [kind |-> "Ok", items |-> result]
                      ELSE process(processor,
                                   ls[CHOOSE i \in errors : \A j \in errors : i <= j]),
              calls |-> calls]
    ELSE process_all_lines(ls, k + 1, processor,
                           IF process(processor, ls[k]).kind = "Ok"
                           THEN Append(result, process(processor, ls[k]).item)
                           ELSE result,
                           Append(calls, ls[k]))

apply_processor_to_input_all_lines(input, processor) ==
    process_all_lines(lines(input), 1, processor, <<>>, <<>>)

\* The loop over input.lines() from its k-th line on: result is the Vec
\* pushed to so far, calls the lines passed to the processor so far.
RECURSIVE for_line(_, _, _, _, _)
for_line(ls, k, processor, result, calls) ==
    IF k > Len(ls) THEN [ret |-> [kind |-> "Ok", items |-> result], calls |-> calls]
    ELSE LET line_result == process(processor, ls[k])
         IN  IF line_result.kind = "Ok"
             THEN for_line(ls, k + 1, processor, Append(result, line_result.item),
                           Append(calls, ls[k]))
             ELSE [ret |-> line_result, calls |-> Append(calls, ls[k])]

\* apply_processor_to_input: what it returns and the calls of process it made.
apply_processor_to_input(input, processor) ==
    for_line(lines(input), 1, processor, <<>>, <<>>)

ApplyProcessorToInput ==
    /\ last.op = "args"
    /\ last' = [op |-> "apply_processor_to_input", input |-> last.input,
                processor |-> last.processor,
                ret |-> apply_processor_to_input(last.input, last.processor).ret,
                calls |-> apply_processor_to_input(last.input, last.processor).calls]
    /\ UNCHANGED <<config, rendered>>

LineInit ==
    /\ NoVisualiser
    /\ overflow_checks \in BOOLEAN
    /\ \E input \in Inputs, processor \in Processors :
           last = [op |-> "args", input |-> input, processor |-> processor]

LineNext == ApplyProcessorToInput

LineSpec == LineInit /\ [][LineNext]_vars

(***************************************************************************)
(* Claims about calculate_viewable_grid_size (SizeSpec).                   *)
(***************************************************************************)
Sized == last.op = "calculate_viewable_grid_size"
NoCaps == ~max_rows.some /\ ~max_cols.some
Caps == max_rows.some /\ max_cols.some

\* The quotients of the published formulas, over the integers.
NeverRows == (area.height - 1) \div (last.content_max_height + 1)
NeverCols == (area.width - 1) \div (last.content_max_width + 1)
HeaderHeight == Max(1, last.content_max_height)
HeaderWidth == Max(5, last.content_max_width)
AlwaysRows == (area.height - HeaderHeight - 2) \div (HeaderHeight + 1)
AlwaysCols == (area.width - HeaderWidth - 2) \div (HeaderWidth + 1)

\* C1: with headers disabled and no caps, whenever both quotients
\* floor((H-1)/(content_height+1)) and floor((W-1)/(content_width+1)) are at
\* least 1, calculate_viewable_grid_size returns Ok with exactly that pair.
C1_NeverFormula ==
    (/\ Sized
     /\ display_row_column_number = "Never"
     /\ NoCaps
     /\ NeverRows >= 1
     /\ NeverCols >= 1)
    => last.ret = Ok(NeverRows, NeverCols)

\* A 7x15 terminal with 1x1 content, headers disabled: 3 rows and 7 columns.
C1_Witness ==
    /\ Sized
    /\ display_row_column_number = "Never"
    /\ NoCaps
    /\ area = [height |-> 7, width |-> 15]
    /\ last.content_max_height = 1
    /\ last.content_max_width = 1
    /\ last.ret = Ok(3, 7)

\* C2: with headers enabled and no caps, rows = floor((H - mh - 2)/(mh + 1))
\* and cols = floor((W - mw - 2)/(mw + 1)) with mh = max(1, content_height) and
\* mw = max(5, content_width), whenever both are at least 1.
C2_AlwaysFormula ==
    (/\ Sized
     /\ display_row_column_number = "Always"
     /\ NoCaps
     /\ AlwaysRows >= 1
     /\ AlwaysCols >= 1)
    => last.ret = Ok(AlwaysRows, AlwaysCols)

\* A 7x13 terminal with 1x1 content, headers enabled: the column header is 5
\* wide although the content is 1 wide, so 2 rows and 1 column fit.
C2_Witness ==
    /\ Sized
    /\ display_row_column_number = "Always"
    /\ NoCaps
    /\ area = [height |-> 7, width |-> 13]
    /\ last.content_max_height = 1
    /\ last.content_max_width = 1
    /\ last.ret = Ok(2, 1)

\* What the same call returns on a visualiser without caps.
NaturalFit ==
    calculate_viewable_grid_size(display_row_column_number, area, None, None,
                                 last.content_max_height, last.content_max_width,
                                 overflow_checks)

\* C3: with caps configured, every Ok result has per dimension exactly
\* min(natural fit, cap), the natural fit being the value computed without
\* caps; a cap never raises a dimension above the natural fit.
C3_CapIsMin ==
    (Sized /\ Caps /\ last.ret.kind = "Ok")
    => /\ NaturalFit.kind = "Ok"
       /\ last.ret.rows = Min(NaturalFit.rows, max_rows.value)
       /\ last.ret.cols = Min(NaturalFit.cols, max_cols.value)
       /\ last.ret.rows <= NaturalFit.rows
       /\ last.ret.cols <= NaturalFit.cols

\* The row cap (2) is above the natural fit (1 row), the column cap (1) below
\* the natural fit (more than 1 column).
C3_Witness ==
    /\ Sized
    /\ Caps
    /\ last.ret.kind = "Ok"
    /\ max_rows.value = 2
    /\ max_cols.value = 1
    /\ NaturalFit.kind = "Ok"
    /\ NaturalFit.rows = 1
    /\ NaturalFit.cols > 1
    /\ last.ret = Ok(1, 1)

\* A dimension is zero after clamping: its cap is zero, or its natural fit is
\* zero (numerator and divisor of the dimension's formula; a numerator below
\* zero that wrapped is not zero).
ZeroAfterClamp(numerator, divisor, cap) ==
    \/ cap.some /\ cap.value = 0
    \/ numerator >= 0 /\ numerator \div divisor = 0

RowsZeroAfterClamp ==
    IF display_row_column_number = "Always"
    THEN ZeroAfterClamp(area.height - HeaderHeight - 2, HeaderHeight + 1, max_rows)
    ELSE ZeroAfterClamp(area.height - 1, last.content_max_height + 1, max_rows)

ColsZeroAfterClamp ==
    IF display_row_column_number = "Always"
    THEN ZeroAfterClamp(area.width - HeaderWidth - 2, HeaderWidth + 1, max_cols)
    ELSE ZeroAfterClamp(area.width - 1, last.content_max_width + 1, max_cols)

C5_NeverAborts ==
    Sized
    => /\ last.ret.kind \in {"Ok", "Err"}
       /\ last.ret.kind = "Ok"
              => last.ret.rows <= area.height /\ last.ret.cols <= area.width

(***************************************************************************)
(* Claims about create_constraints (ConstraintSpec).                       *)
(***************************************************************************)
Constrained == last.op = "create_constraints" /\ last.ret.kind = "Ok"

RECURSIVE SumSeq(_)
SumSeq(q) == IF q = <<>> THEN 0 ELSE Head(q) + SumSeq(Tail(q))

\* The lengths: one per band, each m + 1, the last of the sequence m + 2.
BandsOf(q, count, m) ==
    /\ Len(q) = count
    /\ \A i \in 1..Len(q) : q[i] = IF i = Len(q) THEN m + 2 ELSE m + 1

\* C6: create_constraints returns cell_count constraints (cell_count + 1 with
\* headers enabled), every entry m + 1 except the last entry of the whole
\* sequence, which is m + 2; m is cell_size with headers disabled and
\* max(header_minimum, cell_size) with headers enabled.
C6_AllBandsLastPlusTwo ==
    Constrained
    => IF last.show_numbers = "Always"
       THEN BandsOf(last.ret.constraints, last.cell_count + 1,
                    Max(last.constraint_type.value, last.input_cell_size))
       ELSE BandsOf(last.ret.constraints, last.cell_count, last.input_cell_size)

\* C7 as stated: with headers enabled only the header band is sized by
\* max(header_minimum_size, cell_size) + 1; the content bands that follow are
\* cell_size + 1 (the last cell_size + 2) with the caller's cell_size.
C7_ContentByCallerSize ==
    (Constrained /\ last.show_numbers = "Always")
    => /\ Len(last.ret.constraints) = last.cell_count + 1
       /\ Head(last.ret.constraints)
              = Max(last.constraint_type.value, last.input_cell_size) + 1
       /\ BandsOf(Tail(last.ret.constraints), last.cell_count, last.input_cell_size)

\* C7 amended: with headers enabled every band is sized by
\* m = max(header_minimum_size, cell_size): the header band is m + 1 and the
\* cell_count content bands that follow are each m + 1, the last m + 2.
C7_ContentByHeaderMax ==
    (Constrained /\ last.show_numbers = "Always")
    => /\ Len(last.ret.constraints) = last.cell_count + 1
       /\ Head(last.ret.constraints)
              = Max(last.constraint_type.value, last.input_cell_size) + 1
       /\ BandsOf(Tail(last.ret.constraints), last.cell_count,
                  Max(last.constraint_type.value, last.input_cell_size))

\* create_constraints(3, 2, Always, Column(3)) = [4, 4, 4, 5]: the header
\* minimum 3 is above the cell size 2 and sizes the content bands too.
C7_Witness ==
    /\ Constrained
    /\ last.show_numbers = "Always"
    /\ last.cell_count = 3
    /\ last.input_cell_size = 2
    /\ last.constraint_type = Column(3)
    /\ last.ret.constraints = <<4, 4, 4, 5>>

\* The area dimensions D from which the no-headers formula derives cell_count.
DerivingDimensions ==
    {D \in 0..((MaxCellCount + 1) * (MaxCellSize + 1)) :
        (D - 1) \div (last.input_cell_size + 1) = last.cell_count}

\* C9 as stated: with headers disabled, for every D and cell_size s with
\* n = floor((D-1)/(s+1)) >= 1, the lengths of create_constraints(n, s, Never)
\* sum to exactly D.
C9_SumIsDimension ==
    (Constrained /\ last.show_numbers = "Never" /\ last.cell_count >= 1)
    => \A D \in DerivingDimensions : SumSeq(last.ret.constraints) = D

\* C9 amended: the sum is D - ((D-1) mod (s+1)): at most D, short of it by
\* less than s + 1, and equal to D exactly when s + 1 divides D - 1.
C9_SumIsDimensionLessRemainder ==
    (Constrained /\ last.show_numbers = "Never" /\ last.cell_count >= 1)
    => \A D \in DerivingDimensions :
          /\ SumSeq(last.ret.constraints)
                 = D - ((D - 1) % (last.input_cell_size + 1))
          /\ SumSeq(last.ret.constraints) <= D
          /\ D - SumSeq(last.ret.constraints) < last.input_cell_size + 1
          /\ SumSeq(last.ret.constraints) = D
                 <=> (D - 1) % (last.input_cell_size + 1) = 0

\* create_constraints(2, 2, Never) = [3, 4] sums to 7; it is derived from
\* D = 7 (exact), and from D = 8 and D = 9 (1 and 2 characters left over).
C9_Witness ==
    /\ Constrained
    /\ last.show_numbers = "Never"
    /\ last.cell_count = 2
    /\ last.input_cell_size = 2
    /\ DerivingDimensions = {7, 8, 9}
    /\ SumSeq(last.ret.constraints) = 7

(***************************************************************************)
(* Claims about draw_ref (Spec).                                           *)
(***************************************************************************)
Drawn == last.op = "draw_ref"
HeadersOn == display_row_column_number = "Always"

\* C8: create_constraints fails when headers are enabled and cell_count is 0,
\* so that draw_ref of a view with zero rows or zero columns in Always mode
\* renders no header-only grid.
C8_HeaderOnlyFails ==
    (Drawn /\ HeadersOn /\ (last.grid.nrows = 0 \/ last.grid.ncols = 0))
    => /\ last.grid.nrows = 0 => last.row_constraint.kind = "Err"
       /\ last.grid.ncols = 0 => last.col_constraint.kind = "Err"
       /\ rendered = <<>>

RenderedRows == {rendered[k].row_idx : k \in 1..Len(rendered)}
RenderedCols == {rendered[k].col_idx : k \in 1..Len(rendered)}
LastOf(S) == CHOOSE x \in S : \A y \in S : y <= x

\* C10: every rendered cell of the grid region has TOP iff it is in the
\* first rendered row, BOTTOM iff in the last rendered row, LEFT iff in the
\* first rendered column, RIGHT iff in the last rendered column; so the first
\* cell of a region of at least 2 x 2 has exactly {TOP, LEFT}, the last exactly
\* {BOTTOM, RIGHT}, and the sole cell of a 1 x 1 headerless grid all four.
C10_EdgesOnBoundary ==
    Drawn
    => /\ \A k \in 1..Len(rendered) :
              LET cell == rendered[k]
              IN  /\ TOP \in cell.edge <=> cell.row_idx = 0
                  /\ BOTTOM \in cell.edge <=> cell.row_idx = LastOf(RenderedRows)
                  /\ LEFT \in cell.edge <=> cell.col_idx = 0
                  /\ RIGHT \in cell.edge <=> cell.col_idx = LastOf(RenderedCols)
       /\ (Cardinality(RenderedRows) >= 2 /\ Cardinality(RenderedCols) >= 2)
              => /\ rendered[1].edge = {TOP, LEFT}
                 /\ rendered[Len(rendered)].edge = {BOTTOM, RIGHT}
       /\ (~HeadersOn /\ last.grid.nrows = 1 /\ last.grid.ncols = 1)
              => /\ Len(rendered) = 1
                 /\ rendered[1].edge = {TOP, RIGHT, BOTTOM, LEFT}

\* A one-row, one-column view drawn with headers: a 2 x 2 region whose header
\* corner has {TOP, LEFT} and whose content cell, the last, {BOTTOM, RIGHT}.
C10_Witness ==
    /\ Drawn
    /\ HeadersOn
    /\ last.grid.nrows = 1
    /\ last.grid.ncols = 1
    /\ Len(rendered) = 4
    /\ rendered[1].edge = {TOP, LEFT}
    /\ rendered[2].edge = {TOP, RIGHT}
    /\ rendered[3].edge = {BOTTOM, LEFT}
    /\ rendered[4].edge = {BOTTOM, RIGHT}
    /\ rendered[4].row_idx = 1
    /\ rendered[4].col_idx = 1

(***************************************************************************)
(* Claims about GridCell (CellSpec).                                       *)
(***************************************************************************)
CellRendered == last.op = "render"
Roomy == area.width >= 3 /\ area.height >= 3

\* C11: for every one of the 16 edge sets a grid cell draws its top and left
\* border lines, draws its right line iff the edge set has RIGHT and its
\* bottom line iff it has BOTTOM; the TOP and LEFT flags change nothing of
\* which sides are drawn.  In a buffer of at least 3 x 3 the lines show next
\* to the corners.
C11_SidesByRightAndBottom ==
    CellRendered
    => /\ last.borders = {TOP, LEFT} \cup (last.edge \cap {RIGHT, BOTTOM})
       /\ Roomy
          => /\ buffer(Position(1, 0)).symbol = "HORIZONTAL"
             /\ buffer(Position(0, 1)).symbol = "VERTICAL"
             /\ buffer(Position(area.width - 1, 1)).symbol = "VERTICAL"
                    <=> RIGHT \in last.edge
             /\ buffer(Position(1, area.height - 1)).symbol = "HORIZONTAL"
                    <=> BOTTOM \in last.edge

\* test_render_right: a cell with RIGHT only in a 3 x 3 buffer draws its top,
\* left and right lines and no bottom line.
C11_Witness ==
    /\ CellRendered
    /\ last.edge = {RIGHT}
    /\ last.value = <<"#">>
    /\ area = [height |-> 3, width |-> 3]
    /\ last.borders = {TOP, LEFT, RIGHT}
    /\ buffer(Position(1, 0)).symbol = "HORIZONTAL"
    /\ buffer(Position(2, 1)).symbol = "VERTICAL"
    /\ buffer(Position(1, 2)).symbol = " "

\* C12: for every edge set the top-left junction glyph is the corner when
\* TOP and LEFT are both set, the T pointing down when only TOP is, the T
\* pointing right when only LEFT is, the cross when neither is, whatever
\* RIGHT and BOTTOM are; it is the glyph at the cell's first position.
C12_TopLeftGlyph ==
    CellRendered
    => LET glyph == last.border_set.top_left
       IN  /\ glyph = "TOP_LEFT" <=> (TOP \in last.edge /\ LEFT \in last.edge)
           /\ glyph = "HORIZONTAL_DOWN" <=> (TOP \in last.edge /\ LEFT \notin last.edge)
           /\ glyph = "VERTICAL_RIGHT" <=> (TOP \notin last.edge /\ LEFT \in last.edge)
           /\ glyph = "CROSS" <=> (TOP \notin last.edge /\ LEFT \notin last.edge)
           /\ (area.width >= 1 /\ area.height >= 1)
              => buffer(Position(0, 0)).symbol = glyph

\* test_render_bottom_left: LEFT without TOP gives the T pointing right.
C12_Witness ==
    /\ CellRendered
    /\ last.edge = {BOTTOM, LEFT}
    /\ area = [height |-> 3, width |-> 3]
    /\ last.border_set.top_left = "VERTICAL_RIGHT"
    /\ buffer(Position(0, 0)).symbol = "VERTICAL_RIGHT"
    /\ buffer(Position(0, 2)).symbol = "BOTTOM_LEFT"

\* The interior of a cell rendered into the whole buffer, from its edge set:
\* below the top line and right of the left line, up to the right and bottom
\* lines where the cell has them.
InteriorWidth == area.width - 1 - (IF RIGHT \in last.edge THEN 1 ELSE 0)
InteriorHeight == area.height - 1 - (IF BOTTOM \in last.edge THEN 1 ELSE 0)

\* A cell whose value is one line that fits in its interior.
ValueFits ==
    /\ CellRendered
    /\ Len(last.value) >= 1
    /\ InteriorHeight >= 1
    /\ InteriorWidth >= Len(last.value)

\* The value shows on the given row of the interior (0 is its first row),
\* around the middle column, and on no other row of the interior.
ValueOnInteriorRow(row) ==
    LET first == 1 + (InteriorWidth \div 2) - (Len(last.value) \div 2)
    IN  /\ \A i \in 1..Len(last.value) :
               buffer(Position(first + i - 1, 1 + row)).symbol = last.value[i]
        /\ \A x \in 1..InteriorWidth, y \in 1..InteriorHeight :
               (y # 1 + row) => buffer(Position(x, y)).symbol = " "

\* C18 as stated: a grid cell draws its text horizontally and vertically
\* centered in its interior: for every interior height h >= 1 and width
\* w >= 1 a one-line value is on the middle interior row, around the middle
\* interior column.
C18_ValueOnMiddleRow ==
    ValueFits => ValueOnInteriorRow((InteriorHeight - 1) \div 2)

\* C18, amended: a grid cell draws its text horizontally centered on the
\* first row of its interior: for every interior height h >= 1 and width
\* w >= 1 a one-line value that fits is on the first interior row, starting
\* floor(w / 2) - floor(length / 2) columns into it, and every other interior
\* row is blank.
C18_ValueOnFirstRow ==
    ValueFits => ValueOnInteriorRow(0)

\* A cell with all its edges in a 5 x 5 buffer: an interior of 3 x 3 with the
\* value in the middle of its first row, not of its middle row.
C18_Witness ==
    /\ ValueFits
    /\ last.edge = {TOP, RIGHT, BOTTOM, LEFT}
    /\ last.value = <<"#">>
    /\ area = [height |-> 5, width |-> 5]
    /\ InteriorHeight = 3
    /\ InteriorWidth = 3
    /\ buffer(Position(2, 1)).symbol = "#"
    /\ buffer(Position(2, 2)).symbol = " "

(***************************************************************************)
(* Claims about what draw_ref leaves in the buffer (Spec).                 *)
(***************************************************************************)
DrawnOk == Drawn /\ last.ret.kind = "Ok"

\* A view of at least one row and one column drawn without headers into a
\* terminal that exactly fits it.
ExactFitNever ==
    /\ DrawnOk
    /\ ~HeadersOn
    /\ last.grid.nrows >= 1
    /\ last.grid.ncols >= 1
    /\ area = fit_area("Never", last.grid.nrows, last.grid.ncols)

\* The glyph of a single-line lattice of R x C cells with interiors of one
\* character: lines on the even rows and columns, items in between.
LatticeGlyph(p, R, C) ==
    LET i == p.y \div 2
        j == p.x \div 2
    IN  IF p.y % 2 = 0 /\ p.x % 2 = 0
        THEN IF i = 0
             THEN IF j = 0 THEN "TOP_LEFT"
                  ELSE IF j = C THEN "TOP_RIGHT" ELSE "HORIZONTAL_DOWN"
             ELSE IF i = R
             THEN IF j = 0 THEN "BOTTOM_LEFT"
                  ELSE IF j = C THEN "BOTTOM_RIGHT" ELSE "HORIZONTAL_UP"
             ELSE IF j = 0 THEN "VERTICAL_RIGHT"
                  ELSE IF j = C THEN "VERTICAL_LEFT" ELSE "CROSS"
        ELSE IF p.y % 2 = 0 THEN "HORIZONTAL"
        ELSE IF p.x % 2 = 0 THEN "VERTICAL"
        ELSE Index(last.grid, i, j)

\* C13: a view of R x C items (R, C >= 1) rendered with headers disabled
\* into an area that exactly fits it is a single-line lattice with no doubled
\* borders: the four corners of the region, T junctions on its boundary, a
\* cross at every interior junction, and exactly one border character
\* between adjacent cell interiors.
C13_SingleLineLattice ==
    ExactFitNever
    => \A p \in Positions :
           buffer(p).symbol = LatticeGlyph(p, last.grid.nrows, last.grid.ncols)

\* test_draw_ref_full_grid_with_display_number_never: 2 x 2 items in 5 x 5.
C13_Witness ==
    /\ ExactFitNever
    /\ last.grid.nrows = 2
    /\ last.grid.ncols = 2
    /\ area = [height |-> 5, width |-> 5]
    /\ buffer(Position(0, 0)).symbol = "TOP_LEFT"
    /\ buffer(Position(2, 0)).symbol = "HORIZONTAL_DOWN"
    /\ buffer(Position(4, 0)).symbol = "TOP_RIGHT"
    /\ buffer(Position(0, 2)).symbol = "VERTICAL_RIGHT"
    /\ buffer(Position(2, 2)).symbol = "CROSS"
    /\ buffer(Position(4, 2)).symbol = "VERTICAL_LEFT"
    /\ buffer(Position(0, 4)).symbol = "BOTTOM_LEFT"
    /\ buffer(Position(2, 4)).symbol = "HORIZONTAL_UP"
    /\ buffer(Position(4, 4)).symbol = "BOTTOM_RIGHT"
    /\ buffer(Position(1, 1)).symbol = Index(last.grid, 0, 0)
    /\ buffer(Position(3, 3)).symbol = Index(last.grid, 1, 1)

\* The render calls that show items of the view, and the item's local indices.
HeaderBands == IF HeadersOn THEN 1 ELSE 0
ContentCalls ==
    {k \in 1..Len(rendered) :
        rendered[k].row_idx >= HeaderBands /\ rendered[k].col_idx >= HeaderBands}
LocalRow(k) == rendered[k].row_idx - HeaderBands
LocalCol(k) == rendered[k].col_idx - HeaderBands

\* The terminal holds the whole partition of the drawn view.
Fits ==
    /\ area.height >= fit_area(display_row_column_number, last.grid.nrows, last.grid.ncols).height
    /\ area.width >= fit_area(display_row_column_number, last.grid.nrows, last.grid.ncols).width

\* Where a one-character value lands in the interior of a cell of full size.
ValuePosition(k) ==
    LET interior == IF HeadersOn THEN get_value(DISPLAY_NUMBERS_COL) ELSE 1
    IN  Position(rendered[k].rect.x + 1 + (interior \div 2), rendered[k].rect.y + 1)

\* C14: draw_ref shows each element of the view exactly once, at its
\* view-local position: without headers cell (r, c) shows view[r, c], with
\* headers cell (r, c), r, c >= 1, shows view[r - 1, c - 1]; the indices are
\* local to the view, so a slice shows the items of the slice only.
C14_EachItemOnceAtLocalIndex ==
    DrawnOk
    => /\ \A k \in ContentCalls :
              /\ LocalRow(k) < last.grid.nrows
              /\ LocalCol(k) < last.grid.ncols
              /\ rendered[k].value
                     = <<Board(last.grid.row0 + LocalRow(k), last.grid.col0 + LocalCol(k))>>
              /\ Fits => buffer(ValuePosition(k)).symbol
                             = Board(last.grid.row0 + LocalRow(k),
                                     last.grid.col0 + LocalCol(k))
       /\ \A i \in 0..(last.grid.nrows - 1), j \in 0..(last.grid.ncols - 1) :
              Cardinality({k \in ContentCalls : LocalRow(k) = i /\ LocalCol(k) = j}) = 1

\* test_draw_ref_sliced_view: the slice that drops the first column shows the
\* second column of the board.
C14_Witness ==
    /\ DrawnOk
    /\ ~HeadersOn
    /\ last.grid = [row0 |-> 0, col0 |-> 1, nrows |-> MaxBoard, ncols |-> MaxBoard - 1]
    /\ Len(rendered) = MaxBoard * (MaxBoard - 1)
    /\ rendered[1].value = <<"#">>
    /\ Fits
    /\ buffer(Position(1, 1)).symbol = "#"

\* The decimal text of a number below 100, as a sequence of characters.
Numerals == <<"0", "1", "2", "3", "4", "5", "6", "7", "8", "9">>
DecimalText(n) ==
    IF n < 10 THEN <<Numerals[n + 1]>>
    ELSE <<Numerals[(n \div 10) + 1], Numerals[(n % 10) + 1]>>

\* C15: with headers enabled the header corner (0, 0) is blank, the header
\* cell above rendered column j >= 1 shows the decimal text of j + col_offset
\* and the one left of rendered row i >= 1 that of i + row_offset, where i and
\* j count the header band as index 0: offsets (0, 0) label 1, 2, ..;
\* offsets (5, 10) label the rows 6, 7, .. and the columns 11, 12, ...
C15_HeaderLabels ==
    (DrawnOk /\ HeadersOn)
    => \A k \in 1..Len(rendered) :
           LET i == rendered[k].row_idx
               j == rendered[k].col_idx
           IN  /\ (i = 0 /\ j = 0) => rendered[k].value = <<>>
               /\ (i = 0 /\ j >= 1)
                      => /\ rendered[k].value = DecimalText(j + last.col_offset)
                         /\ (last.col_offset = 0 /\ j = 1) => rendered[k].value = <<"1">>
                         /\ (last.col_offset = 10 /\ j = 1) => rendered[k].value = <<"1", "1">>
               /\ (j = 0 /\ i >= 1)
                      => /\ rendered[k].value = DecimalText(i + last.row_offset)
                         /\ (last.row_offset = 0 /\ i = 1) => rendered[k].value = <<"1">>
                         /\ (last.row_offset = 5 /\ i = 1) => rendered[k].value = <<"6">>

\* test_draw_ref_full_grid_with_display_number_always_with_offset: offsets
\* (5, 10) on a 2 x 2 view label the rows 6, 7 and the columns 11, 12.
C15_Witness ==
    /\ DrawnOk
    /\ HeadersOn
    /\ last.row_offset = 5
    /\ last.col_offset = 10
    /\ last.grid.nrows = 2
    /\ last.grid.ncols = 2
    /\ area = [height |-> 7, width |-> 19]
    /\ rendered[1].value = <<>>
    /\ rendered[2].value = <<"1", "1">>
    /\ rendered[3].value = <<"1", "2">>
    /\ rendered[4].value = <<"6">>
    /\ rendered[7].value = <<"7">>
    /\ buffer(Position(8, 1)).symbol = "1"
    /\ buffer(Position(9, 1)).symbol = "1"
    /\ buffer(Position(14, 1)).symbol = "1"
    /\ buffer(Position(15, 1)).symbol = "2"
    /\ buffer(Position(3, 3)).symbol = "6"
    /\ buffer(Position(3, 5)).symbol = "7"
    /\ buffer(Position(3, 1)).symbol = " "

\* The header cell of a rendered row, and of a rendered column.
RowHeader(i) == CHOOSE k \in 1..Len(rendered) : rendered[k].row_idx = i /\ rendered[k].col_idx = 0
ColHeader(j) == CHOOSE k \in 1..Len(rendered) : rendered[k].row_idx = 0 /\ rendered[k].col_idx = j

\* C16 as stated: with headers enabled the labels are the offsets added to
\* the view's local element indices with no 1-based shift, so row_offset = k
\* labels the view's rows k, k + 1, .. and col_offset = m its columns m,
\* m + 1, ...
C16_LabelIsOffsetPlusLocalIndex ==
    (DrawnOk /\ HeadersOn)
    => \A k \in ContentCalls :
           /\ rendered[RowHeader(rendered[k].row_idx)].value
                  = DecimalText(last.row_offset + LocalRow(k))
           /\ rendered[ColHeader(rendered[k].col_idx)].value
                  = DecimalText(last.col_offset + LocalCol(k))

\* C16, amended: with headers enabled the labels are the offsets added to the
\* index of the rendered band, which counts the header band as 0, so the
\* view's local element indices are shifted by one: row_offset = k labels
\* the view's rows k + 1, k + 2, .. and col_offset = m its columns m + 1,
\* m + 2, ...
C16_LabelIsOffsetPlusLocalIndexPlusOne ==
    (DrawnOk /\ HeadersOn)
    => \A k \in ContentCalls :
           /\ rendered[RowHeader(rendered[k].row_idx)].value
                  = DecimalText(last.row_offset + LocalRow(k) + 1)
           /\ rendered[ColHeader(rendered[k].col_idx)].value
                  = DecimalText(last.col_offset + LocalCol(k) + 1)

\* test_draw_ref_full_grid_with_display_number_always_no_offset: with offsets
\* (0, 0) the first row and the first column of the view are labelled 1.
C16_Witness ==
    /\ DrawnOk
    /\ HeadersOn
    /\ last.row_offset = 0
    /\ last.col_offset = 0
    /\ \E k \in ContentCalls :
           /\ LocalRow(k) = 0
           /\ LocalCol(k) = 0
           /\ rendered[RowHeader(rendered[k].row_idx)].value = <<"1">>
           /\ rendered[ColHeader(rendered[k].col_idx)].value = <<"1">>

\* The interior of the area of a render call: the area less its top row and
\* left column, and less its last column or row where the cell is on the
\* right or bottom edge.
InInterior(call, p) ==
    /\ call.rect.x < p.x
    /\ p.x < call.rect.x + call.rect.width - (IF RIGHT \in call.edge THEN 1 ELSE 0)
    /\ call.rect.y < p.y
    /\ p.y < call.rect.y + call.rect.height - (IF BOTTOM \in call.edge THEN 1 ELSE 0)

StyleOr(option) == IF option.some THEN option.value ELSE DefaultStyle

\* C17: a content cell has the style its element's get_style() gives, the
\* default style when that is None; every header cell, the blank corner
\* included, has the style given to set_numbers_style, the default style
\* when none was given; the header style is on no content cell and an
\* element's style on no header cell; and the style is on the interior of the
\* cell only, never on its border glyphs.
C17_StyleResolution ==
    DrawnOk
    => \A k \in 1..Len(rendered) :
           /\ k \in ContentCalls
                  => rendered[k].style
                         = StyleOr(get_style(Board(last.grid.row0 + LocalRow(k),
                                                   last.grid.col0 + LocalCol(k))))
           /\ k \notin ContentCalls
                  => rendered[k].style = StyleOr(last.numbers_style)
           /\ \A p \in Positions :
                  contains(rendered[k].rect, p)
                  => buffer(p).style
                         = IF InInterior(rendered[k], p) THEN rendered[k].style
                           ELSE DefaultStyle

\* The tests with styles at once: the headers gray, the '#' item red, each in
\* the interior of its cell, and the borders in the default style.
C17_Witness ==
    /\ DrawnOk
    /\ HeadersOn
    /\ last.numbers_style = Some("Gray")
    /\ last.grid = [row0 |-> 0, col0 |-> 0, nrows |-> MaxBoard, ncols |-> MaxBoard]
    /\ Fits
    /\ rendered[1].style = "Gray"
    /\ buffer(Position(0, 0)).style = DefaultStyle
    /\ buffer(Position(1, 1)).style = "Gray"
    /\ buffer(Position(5, 1)).style = "Gray"
    /\ buffer(Position(6, 1)).style = DefaultStyle
    /\ buffer(Position(12, 3)).style = DefaultStyle
    /\ buffer(Position(13, 3)).style = "Red"
    /\ buffer(Position(15, 3)).symbol = "#"
    /\ buffer(Position(7, 3)).style = DefaultStyle

\* The content rows and columns a draw displayed.
ContentRows == {LocalRow(k) : k \in ContentCalls}
ContentCols == {LocalCol(k) : k \in ContentCalls}

\* C19: when row and column caps are configured no draw_ref call displays
\* more than max_rows content rows or more than max_cols content columns,
\* whatever the extent of the view.
C19_DrawWithinCaps ==
    (DrawnOk /\ max_rows.some /\ max_cols.some)
    => /\ Cardinality(ContentRows) <= max_rows.value
       /\ Cardinality(ContentCols) <= max_cols.value

\* The rectangles of the row and column partition are the areas of the render
\* calls: one call per rectangle.
InPartition(p) == \E k \in 1..Len(rendered) : contains(rendered[k].rect, p)

DrawStep == last' # last \/ rendered' # rendered

\* A draw with the view, the offsets and the header style of the draw
\* before it; the area never changes.
SameInputsAsLast ==
    /\ last.op = "draw_ref"
    /\ last'.op = "draw_ref"
    /\ last'.grid = last.grid
    /\ last'.row_offset = last.row_offset
    /\ last'.col_offset = last.col_offset
    /\ last.numbers_style = row_column_number_style

MiddleFound == last.op = "find_middle_element"
NextFound == last.op = "find_next_element"

\* The element at an index that starts at 0.
At(collection, i) == collection[i + 1]

\* C22: find_middle_element on a collection of odd length returns Ok with the
\* element at index len / 2 in every mode; on a non-empty collection of even
\* length it returns the fixed error message in Error mode, the element at
\* index len / 2 - 1 in Left mode and the element at index len / 2 in Right
\* mode.
C22_MiddleByMode ==
    (MiddleFound /\ Len(last.collection) >= 1)
    => LET len == Len(last.collection)
       IN  IF len % 2 = 1
           THEN last.ret = [kind |-> "Ok", index |-> len \div 2,
                            item |-> At(last.collection, len \div 2)]
           ELSE IF last.mode = "Error"
           THEN last.ret = [kind |-> "Err",
                            msg |-> "Collection has even number of elements and error mode used"]
           ELSE IF last.mode = "Left"
           THEN last.ret = [kind |-> "Ok", index |-> (len \div 2) - 1,
                            item |-> At(last.collection, (len \div 2) - 1)]
           ELSE last.ret = [kind |-> "Ok", index |-> len \div 2,
                            item |-> At(last.collection, len \div 2)]

\* find_middle_element_even_count_left_mode, on four elements of which the
\* two in the middle differ.
C22_Witness ==
    /\ MiddleFound
    /\ last.collection = <<1, 1, 2, 2>>
    /\ last.mode = "Left"
    /\ last.ret = [kind |-> "Ok", index |-> 1, item |-> 1]

\* The indices after, and before, the starting index that hold the element.
MatchesAfter ==
    {i \in 0..(Len(last.collection) - 1) :
        i > last.starting_index /\ At(last.collection, i) = last.element}
MatchesBefore ==
    {i \in 0..(Len(last.collection) - 1) :
        i < last.starting_index /\ At(last.collection, i) = last.element}

\* C23: for every collection and every starting_index in 0 .. len - 1,
\* find_next_element in Ascending mode returns Some(i) for the least index
\* i > starting_index that holds the element and None when there is none
\* (always None at starting_index = len - 1); in Descending mode it returns
\* Some(i) for the greatest index i < starting_index that holds the element
\* and None when there is none (always None at starting_index = 0); the
\* element at starting_index itself is never reported.
C23_NextByDirection ==
    (NextFound /\ last.starting_index < Len(last.collection))
    => /\ last.mode = "Ascending"
              => /\ MatchesAfter = {} => last.ret = None
                 /\ MatchesAfter # {}
                        => \E i \in MatchesAfter :
                               /\ \A j \in MatchesAfter : i <= j
                               /\ last.ret = Some(i)
                 /\ last.starting_index = Len(last.collection) - 1 => last.ret = None
       /\ last.mode = "Descending"
              => /\ MatchesBefore = {} => last.ret = None
                 /\ MatchesBefore # {}
                        => \E i \in MatchesBefore :
                               /\ \A j \in MatchesBefore : i >= j
                               /\ last.ret = Some(i)
                 /\ last.starting_index = 0 => last.ret = None
       /\ last.ret # Some(last.starting_index)

\* The element is at the starting index and again behind it: the search
\* reports the later index, not the starting index.
C23_Witness ==
    /\ NextFound
    /\ last.collection = <<1, 2, 1, 2>>
    /\ last.starting_index = 1
    /\ last.element = 2
    /\ last.mode = "Ascending"
    /\ last.ret = Some(3)

\* C29: find_middle_element is total: for every collection, the empty one
\* included, and every mode it returns either Ok with a reference to an
\* element of the collection or an Err value, and never indexes outside the
\* collection.
C29_MiddleTotal ==
    MiddleFound
    => \/ last.ret.kind = "Err"
       \/ /\ last.ret.kind = "Ok"
          /\ last.ret.index \in 0..(Len(last.collection) - 1)
          /\ last.ret.item = At(last.collection, last.ret.index)

(***************************************************************************)
(* Claims about count_sub_slice_u8 and count_sub_slice_ref_u8 (SliceSpec). *)
(***************************************************************************)
Counted == last.op \in {"count_sub_slice_u8", "count_sub_slice_ref_u8"}

\* The start indices (from 0) at which the sub-slice occurs in the slice.
Occurrences ==
    {i \in 0..(Len(last.slice) - 1) :
        /\ i + Len(last.sub_slice) <= Len(last.slice)
        /\ \A k \in 1..Len(last.sub_slice) : last.slice[i + k] = last.sub_slice[k]}

\* C24: count_sub_slice_u8 and count_sub_slice_ref_u8 return, for every
\* slice and every non-empty sub_slice, the number of start indices i with
\* slice[i .. i + len(sub_slice)] equal to sub_slice, overlapping
\* occurrences counted separately, and 0 when sub_slice is longer than
\* slice; the two functions agree on the same byte sequences.
C24_CountsEveryOccurrence ==
    (Counted /\ Len(last.sub_slice) >= 1)
    => /\ last.ret = [kind |-> "Ok", count |-> Cardinality(Occurrences)]
       /\ Len(last.sub_slice) > Len(last.slice) => last.ret.count = 0
       /\ last.ret = count_sub_slice_u8(last.slice, last.sub_slice)
       /\ last.ret = count_sub_slice_ref_u8(Refs(last.slice), Refs(last.sub_slice))

\* Three overlapping occurrences of a two-byte sub-slice in four equal
\* bytes, counted through references.
C24_Witness ==
    /\ last.op = "count_sub_slice_ref_u8"
    /\ last.slice = <<1, 1, 1, 1>>
    /\ last.sub_slice = <<1, 1>>
    /\ last.ret = [kind |-> "Ok", count |-> 3]

(***************************************************************************)
(* Claims about the line processors (LineSpec).                            *)
(***************************************************************************)
Applied == last.op = "apply_processor_to_input"

\* The matches of the regex in a line by their places: the maximal runs of
\* digits, as pairs of first and last position.
Runs(line) == {run \in (1..Len(line)) \X (1..Len(line)) : /\ run[1] <= run[2]
                                                          /\ \A i \in run[1]..run[2] : is_digit(line[i])
                                                          /\ run[1] = 1 \/ ~is_digit(line[run[1] - 1])
                                                          /\ run[2] = Len(line) \/ ~is_digit(line[run[2] + 1])}
FirstRun(line) == CHOOSE run \in Runs(line) : \A other \in Runs(line) : run[1] <= other[1]
LastRun(line) == CHOOSE run \in Runs(line) : \A other \in Runs(line) : other[1] <= run[1]
Text(line, run) == SubSeq(line, run[1], run[2])

\* C25: in FirstLast mode the processor returns, for a line with the ordered
\* matches M, the empty list when M is empty, the single match twice when M
\* has one match, and the first and the last match when M has two or more:
\* the result has length 0 or 2.
C25_FirstLast ==
    (Applied /\ last.processor = "FirstLast") =>
        /\ last.ret.kind = "Ok"
        /\ Len(last.ret.items) = Len(lines(last.input))
        /\ \A k \in 1..Len(last.ret.items) :
               LET line == lines(last.input)[k]
                   item == last.ret.items[k]
               IN  /\ Runs(line) = {} => item = <<>>
                   /\ Cardinality(Runs(line)) = 1 =>
                          item = <<Text(line, FirstRun(line)), Text(line, FirstRun(line))>>
                   /\ Cardinality(Runs(line)) >= 2 =>
                          item = <<Text(line, FirstRun(line)), Text(line, LastRun(line))>>
                   /\ Len(item) \in {0, 2}

C25_Witness ==
    /\ Applied /\ last.processor = "FirstLast"
    /\ last.input = <<"2", "a", "1", "a", "1">>
    /\ last.ret.kind = "Ok"
    /\ last.ret.items = << <<(<<"2">>), (<<"1">>)>> >>

\* The lines of the input on which the processor fails.
Failing == {k \in 1..Len(lines(last.input)) : process(last.processor, lines(last.input)[k]).kind = "Err"}
FirstFailing == CHOOSE k \in Failing : \A other \in Failing : k <= other

\* C26: apply_processor_to_input passes the lines to the processor in order.
\* When every line succeeds it returns Ok with one result per line in line
\* order; when a line fails it returns the error of the first failing line,
\* without the results collected so far, and no later line is passed to the
\* processor.
C26_FirstErrorStops ==
    Applied =>
        /\ Failing = {} =>
               /\ last.ret.kind = "Ok"
               /\ Len(last.ret.items) = Len(lines(last.input))
               /\ \A k \in 1..Len(last.ret.items) :
                      last.ret.items[k] = process(last.processor, lines(last.input)[k]).item
               /\ last.calls = lines(last.input)
        /\ Failing # {} =>
               /\ last.ret = Err(lines(last.input)[FirstFailing])
               /\ last.calls = SubSeq(lines(last.input), 1, FirstFailing)

C26_Witness ==
    /\ Applied /\ last.processor = "MatchesOrErr"
    /\ last.input = <<"1", "\n", "a", "\n", "2">>
    /\ last.ret = Err(<<"a">>)
    /\ last.calls = << <<"1">>, <<"a">> >>

(***************************************************************************)
(* Claims about the other corners of a cell (CellSpec).                    *)
(***************************************************************************)
\* The glyph the four-way rule gives a corner from the flags of its two sides:
\* the plain corner with both, the T along the one that is set, the cross
\* with neither.
FourWay(first, second, corner, only_first, only_second) == IF first \in last.edge THEN (IF second \in last.edge THEN corner ELSE only_first) ELSE (IF second \in last.edge THEN only_second ELSE "CROSS")

AtLeastTwoByTwo == area.width >= 2 /\ area.height >= 2
BottomLeft == Position(0, area.height - 1)
TopRight == Position(area.width - 1, 0)
BottomRight == Position(area.width - 1, area.height - 1)

\* C27 as stated: for all 16 edge sets the bottom-left glyph is the plain
\* corner iff BOTTOM and LEFT are set, the T pointing up iff only BOTTOM, the
\* T pointing right iff only LEFT and the cross iff neither; the top-right and
\* bottom-right glyphs follow the mirrored rules on RIGHT.
C27_CornersFourWay ==
    CellRendered
    => /\ last.border_set.bottom_left
              = FourWay(BOTTOM, LEFT, "BOTTOM_LEFT", "HORIZONTAL_UP", "VERTICAL_RIGHT")
       /\ last.border_set.top_right
              = FourWay(TOP, RIGHT, "TOP_RIGHT", "HORIZONTAL_DOWN", "VERTICAL_LEFT")
       /\ last.border_set.bottom_right
              = FourWay(BOTTOM, RIGHT, "BOTTOM_RIGHT", "HORIZONTAL_UP", "VERTICAL_LEFT")

\* C27 amended: the rule holds of a corner whose two sides are both drawn,
\* that is the bottom-left glyph with BOTTOM set, the top-right glyph with
\* RIGHT set and the bottom-right glyph with both set, and that glyph is the
\* one in the corner of the buffer; otherwise the glyph stays the plain
\* corner, which is not drawn: the line of the one drawn side runs through.
C27_DrawnCornersFourWay ==
    CellRendered
    => /\ last.border_set.bottom_left
              = IF BOTTOM \in last.edge
                THEN FourWay(BOTTOM, LEFT, "BOTTOM_LEFT", "HORIZONTAL_UP", "VERTICAL_RIGHT")
                ELSE "BOTTOM_LEFT"
       /\ last.border_set.top_right
              = IF RIGHT \in last.edge
                THEN FourWay(TOP, RIGHT, "TOP_RIGHT", "HORIZONTAL_DOWN", "VERTICAL_LEFT")
                ELSE "TOP_RIGHT"
       /\ last.border_set.bottom_right = "BOTTOM_RIGHT"
       /\ ({BOTTOM, RIGHT} \subseteq last.edge)
          => last.border_set.bottom_right
                 = FourWay(BOTTOM, RIGHT, "BOTTOM_RIGHT", "HORIZONTAL_UP", "VERTICAL_LEFT")
       /\ AtLeastTwoByTwo
          => /\ buffer(BottomLeft).symbol
                    = IF BOTTOM \in last.edge THEN last.border_set.bottom_left ELSE "VERTICAL"
             /\ buffer(TopRight).symbol
                    = IF RIGHT \in last.edge THEN last.border_set.top_right ELSE "HORIZONTAL"
             /\ ({BOTTOM, RIGHT} \subseteq last.edge)
                => buffer(BottomRight).symbol = "BOTTOM_RIGHT"

\* test_render_bottom_right: the T pointing up at the bottom left, the T
\* pointing left at the top right, the plain corner at the bottom right.
C27_Witness ==
    /\ CellRendered
    /\ last.edge = {BOTTOM, RIGHT}
    /\ area = [height |-> 3, width |-> 3]
    /\ last.border_set.bottom_left = "HORIZONTAL_UP"
    /\ last.border_set.top_right = "VERTICAL_LEFT"
    /\ buffer(Position(0, 2)).symbol = "HORIZONTAL_UP"
    /\ buffer(Position(2, 0)).symbol = "VERTICAL_LEFT"
    /\ buffer(Position(2, 2)).symbol = "BOTTOM_RIGHT"

(***************************************************************************)
(* Claims relating calculate_viewable_grid_size to create_constraints      *)
(* (SizeSpec).                                                             *)
(***************************************************************************)
RECURSIVE SumLengths(_)
SumLengths(constraints) ==
    IF constraints = <<>> THEN 0 ELSE Head(constraints) + SumLengths(Tail(constraints))

\* The total length of the bands create_constraints lays out for a count of
\* cells, as draw_ref calls it for the rows and for the columns.
RowBandsLength(rows) == SumLengths(create_constraints(rows, last.content_max_height, display_row_column_number, DISPLAY_NUMBERS_ROW, overflow_checks).constraints)
ColBandsLength(cols) == SumLengths(create_constraints(cols, last.content_max_width, display_row_column_number, DISPLAY_NUMBERS_COL, overflow_checks).constraints)

\* C28: whenever calculate_viewable_grid_size returns Ok((rows, cols)), the
\* lengths create_constraints produces for rows row bands and cols column
\* bands in the same header mode sum to at most the area's height and width,
\* and with no caps one more band in either direction exceeds the area.  (A
\* band is at least one character long, so more bands than characters do not
\* fit: that case is decided without laying the bands out.)
C28_SizeAgreesWithConstraints ==
    (Sized /\ last.ret.kind = "Ok")
    => /\ last.ret.rows <= area.height
       /\ last.ret.cols <= area.width
       /\ RowBandsLength(last.ret.rows) <= area.height
       /\ ColBandsLength(last.ret.cols) <= area.width
       /\ NoCaps => /\ RowBandsLength(last.ret.rows + 1) > area.height
                    /\ ColBandsLength(last.ret.cols + 1) > area.width

==============================================================================
